---- MODULE Spec2Model ----
(***************************************************************************)
(* A model of the blog platform's translation service                      *)
(* (src/services/translation_service.py): TranslationService.translate_text*)
(* with its configuration switches, the rate-limit cooldown, the lru_cache *)
(* around _cached_translate_call and the two provider adapters.            *)
(*                                                                         *)
(* A translate_text call is a sequence of steps: translate_text (the code   *)
(* up to an early return or the first provider request) and then one step  *)
(* per provider request, CachedPrimary, CachedSecondary, DirectPrimary and *)
(* DirectSecondary.  The provider's answer is the step's input.            *)
(***************************************************************************)
EXTENDS Integers, Sequences, FiniteSets, TLC

(***************************************************************************)
(* Bounds of the model.                                                    *)
(***************************************************************************)
\* The clock stops at MaxTime seconds.
MaxTime == 61
\* Entries the lru_cache holds in the model; the program's maxsize is
\* _CACHE_MAXSIZE = 512 (translation_service.py:39).
CacheCapacity == 1
\* The threads that call translate_text at the same time.
MaxCallers == 3
\* The posts the site can hold.
MaxPosts == 1

\* _COOLDOWN_SECONDS
COOLDOWN_SECONDS == 60

\* Seconds the clock advances by between two steps.
TickSteps == {30}

\* Seconds of a day, and the long wait of the specification SpecDays.
DaySeconds == 24 * 3600
LongWait == 3 * DaySeconds

\* _retry_strategy: Retry(total=2, status_forcelist=[429, 500, 502, 503, 504],
\* allowed_methods=["GET", "POST"], raise_on_status=False)
RETRY_TOTAL == 2
STATUS_FORCELIST == {429, 500, 502, 503, 504}

(***************************************************************************)
(* Strings are sequences of characters, so that strip(), lower() and the  *)
(* truth value of a string are computed and not postulated.                *)
(***************************************************************************)
Whitespace == {" ", "\t", "\n"}

RECURSIVE LStrip(_)
LStrip(s) == IF s # <<>> /\ Head(s) \in Whitespace THEN LStrip(Tail(s)) ELSE s

RECURSIVE RStrip(_)
RStrip(s) ==
    IF s # <<>> /\ s[Len(s)] \in Whitespace THEN RStrip(SubSeq(s, 1, Len(s) - 1)) ELSE s

\* str.strip()
Strip(s) == RStrip(LStrip(s))

LowerChar(c) ==
    CASE c = "A" -> "a" [] c = "E" -> "e" [] c = "F" -> "f" [] c = "H" -> "h"
      [] c = "L" -> "l" [] c = "P" -> "p" [] c = "R" -> "r" [] c = "S" -> "s"
      [] c = "T" -> "t" [] c = "U" -> "u"
      [] OTHER -> c

\* str.lower()
Lower(s) == [i \in 1..Len(s) |-> LowerChar(s[i])]

\* bool(s) of a str
StrTruthy(s) == s # <<>>

\* s.startswith(prefix)
StartsWith(s, prefix) == Len(s) >= Len(prefix) /\ SubSeq(s, 1, Len(prefix)) = prefix

\* s.replace(old, new), for a non-empty old
RECURSIVE Replace(_, _, _)
Replace(s, old, new) ==
    IF s = <<>> THEN <<>>
    ELSE IF StartsWith(s, old)
         THEN new \o Replace(SubSeq(s, Len(old) + 1, Len(s)), old, new)
         ELSE <<Head(s)>> \o Replace(Tail(s), old, new)

(***************************************************************************)
(* The inputs of translate_text.                                           *)
(***************************************************************************)
Hello == <<"H", "e", "l", "l", "o">>
Hola == <<"H", "o", "l", "a">>
Blank == <<" ", " ">>

Texts == {<<>>, Blank, Hello}
TargetLangs == {"en", "es"}
SourceLangs == {"auto", "es"}

(***************************************************************************)
(* JSON values as Python sees them after response.json(): a str, a         *)
(* non-empty list holding one str, a non-zero number, None.  "absent" is a *)
(* key the object does not have.                                           *)
(***************************************************************************)
Str(s) == [type |-> "str", val |-> s]
ListOf(s) == [type |-> "list", val |-> s]
Num == [type |-> "num", val |-> <<"7">>]
Null == [type |-> "null", val |-> <<>>]
Absent == [type |-> "absent", val |-> <<>>]

\* bool(v)
Truthy(v) ==
    CASE v.type = "str" -> StrTruthy(v.val)
      [] v.type = "list" -> TRUE
      [] v.type = "num" -> TRUE
      [] OTHER -> FALSE

\* A slice that raises for a str as well.
SliceableListOnly(v) == v.type = "list"

\* v[:50] does not raise TypeError
Sliceable(v) == v.type \in {"str", "list"}

\* a or b
Or(a, b) == IF Truthy(a) THEN a ELSE b

\* dict.get(key): None for a key that is absent
Get(v) == IF v.type = "absent" THEN Null ELSE v

\* dict.get(key, default)
GetOr(v, default) == IF v.type = "absent" THEN default ELSE v

(***************************************************************************)
(* What a provider request can end in: no response (a timeout, a           *)
(* connection error) or a response with a status code and a body that is   *)
(* not JSON, JSON that is no object, or a JSON object.                     *)
(***************************************************************************)
NoResponse ==
    [kind |-> "none", status |-> 0, body |-> "none", translatedText |-> Absent,
     result |-> Absent, translation |-> Absent, responseStatus |-> 0,
     responseData |-> "absent"]

NetworkError(kind) == [NoResponse EXCEPT !.kind = kind]
HttpResponse(status, body) ==
    [NoResponse EXCEPT !.kind = "response", !.status = status, !.body = body]

\* The primary provider (LibreTranslate):
\* {"translatedText": tt, "result": res, "translation": trn}
PrimaryObject(tt, res, trn) ==
    [HttpResponse(200, "object") EXCEPT
        !.translatedText = tt, !.result = res, !.translation = trn]

\* The secondary provider (MyMemory):
\* {"responseStatus": st, "responseData": {"translatedText": tt}}
SecondaryObject(st, data, tt) ==
    [HttpResponse(200, "object") EXCEPT
        !.responseStatus = st, !.responseData = data, !.translatedText = tt]

Unanswered == {NetworkError("timeout"), NetworkError("connection_error")}
NotAnObject ==
    {HttpResponse(429, "non_json"), HttpResponse(500, "non_json"),
     HttpResponse(200, "non_json"), HttpResponse(200, "non_object")}

PrimaryResponses ==
    Unanswered \cup NotAnObject
    \cup {PrimaryObject(tt, Absent, Absent) :
             tt \in {Str(Hola), Str(Hello), ListOf(Hola), Num, Absent}}
    \cup {PrimaryObject(Str(<<>>), Null, Str(Hola))}

SecondaryResponses ==
    Unanswered \cup NotAnObject
    \cup {SecondaryObject(403, "absent", Absent), SecondaryObject(200, "absent", Absent),
          SecondaryObject(200, "null", Absent)}
    \cup {SecondaryObject(200, "object", tt) : tt \in {Str(Hola), Str(Hello), ListOf(Hola), Num}}

(***************************************************************************)
(* Configuration: the process environment and the Config class the app     *)
(* was created with (src/config.py).                                       *)
(***************************************************************************)
\* 'https://libretranslate.de/translate'
DefaultApiUrl ==
    <<"h", "t", "t", "p", "s", ":", "/", "/", "l", "i", "b", "r", "e", "t",
      "r", "a", "n", "s", "l", "a", "t", "e", ".", "d", "e", "/", "t", "r",
      "a", "n", "s", "l", "a", "t", "e">>
\* 'http://lt.example/t' and 'HTTP://lt.example/t'
HttpApiUrl ==
    <<"h", "t", "t", "p", ":", "/", "/", "l", "t", ".", "e", "x", "a", "m",
      "p", "l", "e", "/", "t">>
UpperHttpApiUrl ==
    <<"H", "T", "T", "P", ":", "/", "/", "l", "t", ".", "e", "x", "a", "m",
      "p", "l", "e", "/", "t">>
BlankApiUrl == <<" ">>

EnvFalse == <<"f", "a", "l", "s", "e">>
EnvFalseCapital == <<"F", "a", "l", "s", "e">>
EnvTrue == <<"t", "r", "u", "e">>
EnvZero == <<"0">>

\* The values of the environment variables: Absent is a variable not set.
EnabledSettings == {Absent, Str(EnvFalse), Str(EnvFalseCapital), Str(EnvZero)}
ApiUrlSettings ==
    {Absent, Str(<<>>), Str(BlankApiUrl), Str(HttpApiUrl), Str(UpperHttpApiUrl)}
ApiKeySettings == {Absent}
ConfigNames == {"development", "production"}

\* Config.TRANSLATION_API_URL
ConfigApiUrl(environ) == GetOr(environ.TRANSLATION_API_URL, Str(DefaultApiUrl)).val

\* Config.TRANSLATION_API_KEY
ConfigApiKey(environ) == GetOr(environ.TRANSLATION_API_KEY, Str(<<>>)).val

\* Config.TRANSLATION_ENABLED, ProductionConfig.TRANSLATION_ENABLED
ConfigEnabled(name, environ) ==
    IF name = "production" THEN FALSE
    ELSE Lower(GetOr(environ.TRANSLATION_ENABLED, Str(EnvTrue)).val) = EnvTrue

HttpsPrefix == <<"h", "t", "t", "p", "s", ":", "/", "/">>
HttpPrefix == <<"h", "t", "t", "p", ":", "/", "/">>

\* _translate_with_libretranslate, lines 184-186:
\* if not api_url.startswith('https://'): api_url = api_url.replace('http://', 'https://')
EnforceHttps(api_url) ==
    IF StartsWith(api_url, HttpsPrefix) THEN api_url
    ELSE Replace(api_url, HttpPrefix, HttpsPrefix)

\* The scheme _session.post(url) sends the request over: requests strips the
\* leading whitespace of the url and takes the scheme in lower case, and the
\* session has an adapter mounted for "https://" and for "http://" (lines
\* 35-36); for any other url it raises and sends nothing.
WireScheme(url) ==
    IF StartsWith(Lower(LStrip(url)), HttpsPrefix) THEN "https"
    ELSE IF StartsWith(Lower(LStrip(url)), HttpPrefix) THEN "http"
    ELSE "unsent"

\* EnforceHttps and the scheme of its result, computed once for the urls the
\* configuration can give.
ConfiguredUrls == {GetOr(u, Str(DefaultApiUrl)).val : u \in ApiUrlSettings}
EnforcedUrl == [api_url \in ConfiguredUrls |-> EnforceHttps(api_url)]
EnforcedScheme == [api_url \in ConfiguredUrls |-> WireScheme(EnforceHttps(api_url))]

\* The outcomes of a request that the session's adapter retries: no response
\* (a connection error, a timeout) and a status of the forcelist.  After
\* RETRY_TOTAL retries the session raises (no response) or, as raise_on_status
\* is False, returns the last response.
Retried(resp) == resp.kind # "response" \/ resp.status \in STATUS_FORCELIST

(***************************************************************************)
(* The provider adapters.  Each gives what the Python function does with   *)
(* the response: the value it returns or the fact that it raises, and      *)
(* whether it sets _last_rate_limit_hit.                                   *)
(***************************************************************************)
Returned(v) == [raised |-> FALSE, value |-> v, hit |-> FALSE]
Raised == [raised |-> TRUE, value |-> Null, hit |-> FALSE]
RateLimited(outcome) == [outcome EXCEPT !.hit = TRUE]

\* _translate_with_libretranslate without line 210: a 429 is not recorded.
LibretranslateNoHit(api_url, resp) ==
    IF ~StrTruthy(api_url) THEN Raised
    ELSE IF EnforcedScheme[api_url] = "unsent" THEN Raised
    ELSE IF resp.kind # "response" THEN Raised
    ELSE IF resp.status >= 400 THEN Raised
    ELSE IF resp.body # "object" THEN Raised
    ELSE LET translated ==
                 Or(Or(Get(resp.translatedText), Get(resp.result)), Get(resp.translation))
         IN  IF ~Truthy(translated) THEN Raised
             ELSE IF ~Sliceable(translated) THEN Raised
             ELSE Returned(translated)

\* _translate_with_libretranslate reading 'translatedText' only at line 227.
LibretranslateFirstFieldOnly(api_url, resp) ==
    IF ~StrTruthy(api_url) THEN Raised
    ELSE IF EnforcedScheme[api_url] = "unsent" THEN Raised
    ELSE IF resp.kind # "response" THEN Raised
    ELSE IF resp.status = 429 THEN RateLimited(Raised)
    ELSE IF resp.status >= 400 THEN Raised
    ELSE IF resp.body # "object" THEN Raised
    ELSE LET translated == Get(resp.translatedText)
         IN  IF ~Truthy(translated) THEN Raised
             ELSE IF ~Sliceable(translated) THEN Raised
             ELSE Returned(translated)

\* _translate_with_libretranslate, from the request on
translate_with_libretranslate(api_url, resp) ==
    IF ~StrTruthy(api_url) THEN Raised                      \* ValueError
    ELSE IF EnforcedScheme[api_url] = "unsent" THEN Raised  \* InvalidSchema
    ELSE IF resp.kind # "response" THEN Raised              \* Timeout, ConnectionError
    ELSE IF resp.status = 429 THEN RateLimited(Raised)      \* HTTPError
    ELSE IF resp.status >= 400 THEN Raised                  \* raise_for_status()
    ELSE IF resp.body = "non_json" THEN Raised              \* RequestException
    ELSE IF resp.body # "object" THEN Raised                \* AttributeError
    ELSE LET translated ==
                 Or(Or(Get(resp.translatedText), Get(resp.result)), Get(resp.translation))
         IN  IF ~Truthy(translated) THEN Raised             \* ValueError
             ELSE IF ~Sliceable(translated) THEN Raised     \* TypeError
             ELSE Returned(translated)

\* _translate_with_mymemory without line 284: a 429 is not recorded.
MymemoryNoHit(text, resp) ==
    IF resp.kind # "response" THEN Returned(Str(text))
    ELSE IF resp.status >= 400 THEN Returned(Str(text))
    ELSE IF resp.body = "non_json" THEN Returned(Str(text))
    ELSE IF resp.body # "object" THEN Raised
    ELSE IF resp.responseStatus # 200 THEN Returned(Str(text))
    ELSE IF resp.responseData = "null" THEN Raised
    ELSE LET translated ==
                 IF resp.responseData = "absent" THEN Str(text)
                 ELSE GetOr(resp.translatedText, Str(text))
         IN  IF Truthy(translated) /\ translated # Str(text)
             THEN IF Sliceable(translated) THEN Returned(translated)
                  ELSE Raised
             ELSE Returned(Str(text))

\* _translate_with_mymemory with the test of line 303 inverted.
MymemoryInvertedCheck(text, resp) ==
    IF resp.kind # "response" THEN Returned(Str(text))
    ELSE IF resp.status = 429 THEN RateLimited(Returned(Str(text)))
    ELSE IF resp.status >= 400 THEN Returned(Str(text))
    ELSE IF resp.body = "non_json" THEN Returned(Str(text))
    ELSE IF resp.body # "object" THEN Raised
    ELSE IF resp.responseStatus # 200 THEN Returned(Str(text))
    ELSE IF resp.responseData = "null" THEN Raised
    ELSE LET translated ==
                 IF resp.responseData = "absent" THEN Str(text)
                 ELSE GetOr(resp.translatedText, Str(text))
         IN  IF Truthy(translated) /\ translated = Str(text)
             THEN IF Sliceable(translated) THEN Returned(translated)
                  ELSE Raised
             ELSE Returned(Str(text))

\* _translate_with_mymemory, from the request on
translate_with_mymemory(text, resp) ==
    IF resp.kind # "response" THEN Returned(Str(text))
    ELSE IF resp.status = 429 THEN RateLimited(Returned(Str(text)))
    ELSE IF resp.status >= 400 THEN Returned(Str(text))
    ELSE IF resp.body = "non_json" THEN Returned(Str(text))
    ELSE IF resp.body # "object" THEN Raised                \* AttributeError
    ELSE IF resp.responseStatus # 200 THEN Returned(Str(text))
    ELSE IF resp.responseData = "null" THEN Raised          \* AttributeError
    ELSE LET translated ==
                 IF resp.responseData = "absent" THEN Str(text)
                 ELSE GetOr(resp.translatedText, Str(text))
         IN  IF Truthy(translated) /\ translated # Str(text)
             THEN IF Sliceable(translated) THEN Returned(translated)
                  ELSE Raised                               \* TypeError
             ELSE Returned(Str(text))

(***************************************************************************)
(* get_supported_languages: the dict of lines 330-343.                     *)
(***************************************************************************)
LanguageCodes == {"en", "es", "fr", "de", "it", "pt", "ru", "ja", "ko", "zh", "ar", "hi"}

SupportedLanguages ==
    [code \in LanguageCodes |->
        CASE code = "en" -> "English" [] code = "es" -> "Spanish"
          [] code = "fr" -> "French" [] code = "de" -> "German"
          [] code = "it" -> "Italian" [] code = "pt" -> "Portuguese"
          [] code = "ru" -> "Russian" [] code = "ja" -> "Japanese"
          [] code = "ko" -> "Korean" [] code = "zh" -> "Chinese"
          [] code = "ar" -> "Arabic" [] code = "hi" -> "Hindi"]

\* No dict: get_supported_languages was not called yet.
NoMapping == [none |-> "none"]

VARIABLES
    environ,            \* os.environ
    config_name,        \* the configuration create_app was called with
    now,                \* time.time(), in seconds
    last_rate_limit_hit,\* _last_rate_limit_hit; 0 is no hit
    cache,              \* the lru_cache of _cached_translate_call, least recent first
    pc,                 \* where the translate_text call in progress is; "idle" is none
    req,                \* the arguments of the call in progress or of the last call
    prim,               \* the primary provider's last response in that call
    posted_url,         \* the url the last request to the primary provider went to
    attempts,           \* requests the _session call in progress has sent and retried
    n_primary,          \* _session.post calls of that call (the primary provider)
    n_secondary,        \* _session.get calls of that call (the secondary provider)
    ret,                \* what the last call returned
    ret_line,           \* the line of translate_text the last call returned at
    languages,          \* what the last get_supported_languages call returned
    supported,          \* the dict that call returned, as its caller holds it now
    thread,             \* the concurrent translate_text calls, one per thread
    obtained,           \* the values the provider adapters returned to those calls
    maxsize,            \* the maxsize the lru_cache was made with
    users,              \* the table users: user_id -> the row
    post,               \* the tables post and post_content: post_id -> the post
    session,            \* the Flask session of the browser that sends the requests
    response            \* the response to its last request

vars ==
    <<environ, config_name, now, last_rate_limit_hit, cache, pc, req, prim, posted_url,
      attempts, n_primary, n_secondary, ret, ret_line, languages, supported,
      thread, obtained, maxsize, users, post, session, response>>

\* The variables of the routes: the database, the session and the response.
site_vars == <<users, post, session, response>>

\* The variables of the translation service.
service_vars ==
    <<environ, config_name, now, last_rate_limit_hit, cache, pc, req, prim, posted_url,
      attempts, n_primary, n_secondary, ret, ret_line, languages, supported,
      thread, obtained, maxsize>>

\* The variables of the concurrent calls.
thread_vars == <<thread, obtained>>

\* The variables of the one call of translate_text at a time.
call_vars ==
    <<pc, req, prim, posted_url, attempts, n_primary, n_secondary, ret, ret_line>>

\* The variables of get_supported_languages and its callers.
languages_vars == <<languages, supported>>

\* The variables of translate_text.
translation_vars ==
    <<environ, config_name, maxsize, now, last_rate_limit_hit, cache, pc, req, prim, posted_url,
      attempts, n_primary, n_secondary, ret, ret_line>>

\* The places of a call at which a request to a provider is in progress.
PrimaryPcs == {"cached_primary", "direct_primary"}
SecondaryPcs == {"cached_secondary", "direct_secondary"}
ProviderPcs == PrimaryPcs \cup SecondaryPcs

NoUrl == <<>>
NoValue == [type |-> "none", val |-> <<>>]
NoRequest == [text |-> <<>>, target_lang |-> "", source_lang |-> ""]

\* os.environ.get('TRANSLATION_ENABLED', '').lower() == 'false'
EnvDisabled == Lower(GetOr(environ.TRANSLATION_ENABLED, Str(<<>>)).val) = EnvFalse

\* The test of line 91 skipped, as when current_app raises outside an app context.
ConfigCheckSkipped == FALSE

\* not current_app.config.get('TRANSLATION_ENABLED', True)
ConfigDisabled == ~ConfigEnabled(config_name, environ)

\* os.environ.get('TRANSLATION_API_URL') or current_app.config.get('TRANSLATION_API_URL', '')
ApiUrl == Or(Get(environ.TRANSLATION_API_URL), Str(ConfigApiUrl(environ))).val

\* os.environ.get('TRANSLATION_API_KEY') or current_app.config.get('TRANSLATION_API_KEY', '')
ApiKey == Or(Get(environ.TRANSLATION_API_KEY), Str(ConfigApiKey(environ))).val

\* The test of lines 122 and 145 without api_url.strip().
ApiUrlConfiguredNoStrip == StrTruthy(ApiUrl)

\* api_url and api_url.strip()
ApiUrlConfigured == StrTruthy(ApiUrl) /\ StrTruthy(Strip(ApiUrl))

\* The test of line 79 without text.strip().
NoTranslationNeededNoStrip(text, target_lang) == ~StrTruthy(text) \/ target_lang = "en"

\* The test of line 79 without target_lang == 'en'.
NoTranslationNeededAnyTarget(text, target_lang) ==
    ~StrTruthy(text) \/ ~StrTruthy(Strip(text))

\* not text or target_lang == 'en' or not text.strip()
NoTranslationNeeded(text, target_lang) ==
    ~StrTruthy(text) \/ target_lang = "en" \/ ~StrTruthy(Strip(text))

\* The test of line 107 with half the window.
InCooldownHalf ==
    last_rate_limit_hit # 0 /\ (now - last_rate_limit_hit) < COOLDOWN_SECONDS \div 2

\* The test of line 107 with <= for <.
InCooldownInclusive ==
    last_rate_limit_hit # 0 /\ (now - last_rate_limit_hit) <= COOLDOWN_SECONDS

\* _last_rate_limit_hit and (time.time() - _last_rate_limit_hit) < _COOLDOWN_SECONDS
InCooldown == last_rate_limit_hit # 0 /\ (now - last_rate_limit_hit) < COOLDOWN_SECONDS

(***************************************************************************)
(* functools.lru_cache(maxsize): a hit moves the entry to the most recent  *)
(* place, a miss that returns adds the entry and, when the cache is full,  *)
(* drops the least recently used one.  A call that raises adds nothing.    *)
(* lru_cache keeps no time with an entry and never drops one for its age;  *)
(* the field day of an entry, the day it was added on, is kept here only   *)
(* to tell the age of the entry.                                           *)
(***************************************************************************)
\* A key that leaves the source language out.
CacheKeyWithoutSource(api_url, text, target_lang, source_lang) ==
    [api_url |-> api_url, api_key |-> ApiKey, text |-> text, target_lang |-> target_lang,
     source_lang |-> ""]

\* The arguments of _cached_translate_call, which lru_cache makes the key of.
CacheKey(api_url, text, target_lang, source_lang) ==
    [api_url |-> api_url, api_key |-> ApiKey, text |-> text, target_lang |-> target_lang,
     source_lang |-> source_lang]

ReqKey == CacheKey(ApiUrl, req.text, req.target_lang, req.source_lang)

CacheHas(c, key) == \E i \in 1..Len(c) : c[i].key = key
CacheIndex(c, key) == CHOOSE i \in 1..Len(c) : c[i].key = key
CacheValue(c, key) == c[CacheIndex(c, key)].value
CacheWithout(c, i) == SubSeq(c, 1, i - 1) \o SubSeq(c, i + 1, Len(c))
\* A hit that leaves the entry at its place.
CacheTouchNothing(c, key) == c

CacheTouch(c, key) == Append(CacheWithout(c, CacheIndex(c, key)), c[CacheIndex(c, key)])
\* A cache that stores nothing.
CachePutNothing(c, key, value) == c

CachePut(c, key, value) ==
    LET entry == [key |-> key, value |-> value, day |-> now \div DaySeconds]
    IN  IF Len(c) >= maxsize THEN Append(Tail(c), entry) ELSE Append(c, entry)

(***************************************************************************)
(* The site: the rows of the database (models.py), the Flask session of    *)
(* one browser and the responses of the routes.  Two users are registered, *)
(* a third e-mail address belongs to nobody.                               *)
(***************************************************************************)
UserIds == {1, 2}
Anonymous == 0
AnnEmail == "ann@example.org"
BobEmail == "bob@example.org"
EveEmail == "eve@example.org"
Emails == {AnnEmail, BobEmail, EveEmail}

\* Passwords of six characters and of five.
OldPassword == <<"o", "l", "d", "p", "w", "d">>
NewPassword == <<"n", "e", "w", "p", "w", "d">>
ShortPassword == <<"s", "h", "o", "r", "t">>
\* What the reset form is filled in with: a field left empty, and a
\* confirmation that repeats the new password or does not.
NewPasswords == {<<>>, ShortPassword, NewPassword}
Confirmations(new_password) == {new_password, OldPassword}

\* generate_password_hash(password) and check_password_hash(hash, password):
\* the hash is salted, and it matches the password it was made of and no other.
generate_password_hash(password) == [hash_of |-> password]
check_password_hash(pwhash, password) == pwhash.hash_of = password

\* The attributes of a User object: the columns and the relationship of
\* models.py, lines 11-21, and the methods of the class and of UserMixin.
UserAttributes ==
    {"user_id", "name", "username", "email", "password", "bio", "role", "create_at",
     "posts", "get_id", "set_password", "check_password", "is_active",
     "is_authenticated", "is_anonymous"}

\* A post with its first content row; a post_id with no row.
NoPost == [author_id |-> 0, category |-> "", status |-> "", title |-> "", content |-> ""]
PostIds == 1..MaxPosts
Categories == {"news", "noticias"}
Statuses == {"draft", "published"}
Titles == {"Hello", "Hola"}
Contents == {"Hello"}
PostForms ==
    [category : Categories, status : Statuses, title : Titles, content : Contents]

\* secrets.token_urlsafe(32), and what a url can hold for a token.
Tokens == {"token-1", "token-2"}
NoToken == "none"
UrlTokens == Tokens \cup {"guess"}

\* The responses: a page rendered or a redirect, the message flashed, and the
\* reset link the page shows.
NoLink == [user_id |-> 0, token |-> NoToken]
RenderTemplate(page, flash) ==
    [status |-> 200, page |-> page, location |-> "", flash |-> flash, reset_link |-> NoLink]
Redirect(location, flash) ==
    [status |-> 302, page |-> "", location |-> location, flash |-> flash,
     reset_link |-> NoLink]
NotFound == [RenderTemplate("errors/404.html", "") EXCEPT !.status = 404]
InternalError == [RenderTemplate("errors/500.html", "") EXCEPT !.status = 500]
NoResponseYet == RenderTemplate("", "")

\* The database of the site and a browser that is not logged in.
InitSite ==
    /\ users = [u \in UserIds |->
                  [email |-> IF u = 1 THEN AnnEmail ELSE BobEmail,
                   password |-> generate_password_hash(OldPassword)]]
    /\ post = [i \in PostIds |-> NoPost]
    /\ session = [user_id |-> Anonymous, reset_token |-> [u \in UserIds |-> NoToken]]
    /\ response = NoResponseYet

(***************************************************************************)
(* The state after the module is imported and the app created.             *)
(***************************************************************************)
Imported(size) ==
    /\ environ \in [TRANSLATION_ENABLED : EnabledSettings,
                    TRANSLATION_API_URL : ApiUrlSettings,
                    TRANSLATION_API_KEY : ApiKeySettings]
    /\ config_name \in ConfigNames
    /\ now = 1
    /\ last_rate_limit_hit = 0
    /\ cache = <<>>
    /\ maxsize = size
    /\ pc = "idle"
    /\ req = NoRequest
    /\ prim = NoResponse
    /\ posted_url = NoUrl
    /\ attempts = 0
    /\ n_primary = 0
    /\ n_secondary = 0
    /\ ret = NoValue
    /\ ret_line = 0
    /\ languages = NoMapping
    /\ supported = NoMapping
    /\ thread = <<>>
    /\ obtained = {}
    /\ InitSite

\* The cache holds CacheCapacity entries.
Init == Imported(CacheCapacity)

\* translate_text returns value at the given line.
Return(value, line) ==
    /\ ret' = value
    /\ ret_line' = line
    /\ pc' = "idle"

\* An except clause of line 118 that calls the cached function again.
CachedCallAgain == IF ApiUrlConfigured THEN "cached_primary" ELSE "cached_secondary"

\* The except clause of line 118: the direct calls.
DirectCall == IF ApiUrlConfigured THEN "direct_primary" ELSE "direct_secondary"

\* _cached_translate_call returned value: it is cached, and lines 116-117 return
\* it unless the slice of line 116 raises.
CachedCallReturns(value) ==
    /\ cache' = CachePut(cache, ReqKey, value)
    /\ IF Sliceable(value)
       THEN Return(value, 117)
       ELSE pc' = DirectCall /\ UNCHANGED <<ret, ret_line>>

\* _session.post or _session.get returns resp to the adapter, or raises for no
\* response: resp is not retried, or the retries are used up.
SessionReturns(resp) ==
    /\ Retried(resp) => attempts = RETRY_TOTAL
    /\ attempts' = 0

\* _session.post(api_url, ...) of line 204, after lines 184-186: the url the
\* request is sent to, when one is sent.
Posted(api_url) ==
    IF EnforcedScheme[api_url] = "unsent" THEN posted_url ELSE EnforcedUrl[api_url]

\* A provider adapter set _last_rate_limit_hit = time.time(), or did not.
RecordHit(outcome) ==
    last_rate_limit_hit' = IF outcome.hit THEN now ELSE last_rate_limit_hit

(***************************************************************************)
(* translate_text(text, target_lang, source_lang), lines 78-117: up to an  *)
(* early return, a hit in the cache, or the first provider request.        *)
(***************************************************************************)
translate_text(text, target_lang, source_lang) ==
    /\ pc = "idle"
    /\ req' = [text |-> text, target_lang |-> target_lang, source_lang |-> source_lang]
    /\ prim' = NoResponse
    /\ n_primary' = 0
    /\ n_secondary' = 0
    /\ UNCHANGED <<environ, config_name, maxsize, site_vars, languages_vars, thread_vars, posted_url, now, last_rate_limit_hit, attempts>>
    /\ LET key == CacheKey(ApiUrl, text, target_lang, source_lang)
       IN  IF NoTranslationNeeded(text, target_lang)
           THEN Return(Str(text), 80) /\ UNCHANGED cache
           ELSE IF EnvDisabled
           THEN Return(Str(text), 86) /\ UNCHANGED cache
           ELSE IF ConfigDisabled
           THEN Return(Str(text), 93) /\ UNCHANGED cache
           ELSE IF InCooldown
           THEN Return(Str(text), 109) /\ UNCHANGED cache
           ELSE IF CacheHas(cache, key)
           THEN /\ cache' = CacheTouch(cache, key)
                /\ Return(CacheValue(cache, key), 117)
           ELSE /\ pc' = IF ApiUrlConfigured THEN "cached_primary" ELSE "cached_secondary"
                /\ UNCHANGED <<cache, ret, ret_line>>

\* _cached_translate_call, line 147: the primary provider answers resp.
CachedPrimary(resp) ==
    /\ pc = "cached_primary"
    /\ SessionReturns(resp)
    /\ LET outcome == translate_with_libretranslate(ApiUrl, resp)
       IN  /\ RecordHit(outcome)
           /\ IF outcome.raised
              THEN pc' = "cached_secondary" /\ UNCHANGED <<cache, ret, ret_line>>
              ELSE CachedCallReturns(outcome.value)
    /\ prim' = resp
    /\ posted_url' = Posted(ApiUrl)
    /\ n_primary' = n_primary + 1
    /\ UNCHANGED <<environ, config_name, maxsize, site_vars, languages_vars, thread_vars, now, req, n_secondary>>

\* _cached_translate_call, lines 150 and 152: the secondary provider answers
\* resp.  An exception leaves _cached_translate_call, which caches nothing,
\* and is caught at line 118.
CachedSecondary(resp) ==
    /\ pc = "cached_secondary"
    /\ SessionReturns(resp)
    /\ LET outcome == translate_with_mymemory(req.text, resp)
       IN  /\ RecordHit(outcome)
           /\ IF outcome.raised
              THEN pc' = DirectCall /\ UNCHANGED <<cache, ret, ret_line>>
              ELSE CachedCallReturns(outcome.value)
    /\ n_secondary' = n_secondary + 1
    /\ UNCHANGED <<environ, config_name, maxsize, site_vars, languages_vars, thread_vars, posted_url, now, req, prim, n_primary>>

\* translate_text, lines 124-126: the direct call of the primary provider.
DirectPrimary(resp) ==
    /\ pc = "direct_primary"
    /\ SessionReturns(resp)
    /\ LET outcome == translate_with_libretranslate(ApiUrl, resp)
       IN  /\ RecordHit(outcome)
           /\ IF outcome.raised
              THEN pc' = "direct_secondary" /\ UNCHANGED <<ret, ret_line>>
              ELSE Return(outcome.value, 126)
    /\ prim' = resp
    /\ posted_url' = Posted(ApiUrl)
    /\ n_primary' = n_primary + 1
    /\ UNCHANGED <<environ, config_name, maxsize, site_vars, languages_vars, thread_vars, now, cache, req, n_secondary>>

\* translate_text, lines 129 and 132: the direct call of the secondary
\* provider.  An exception is caught at line 134, and line 136 returns text.
DirectSecondary(resp) ==
    /\ pc = "direct_secondary"
    /\ SessionReturns(resp)
    /\ LET outcome == translate_with_mymemory(req.text, resp)
       IN  /\ RecordHit(outcome)
           /\ IF outcome.raised
              THEN Return(Str(req.text), 136)
              ELSE Return(outcome.value, IF ApiUrlConfigured THEN 129 ELSE 132)
    /\ n_secondary' = n_secondary + 1
    /\ UNCHANGED <<environ, config_name, maxsize, site_vars, languages_vars, thread_vars, posted_url, now, cache, req, prim, n_primary>>

\* The request in progress got resp and the session's adapter sends it again.
SessionRetry(resp) ==
    /\ pc \in ProviderPcs
    /\ Retried(resp)
    /\ attempts < RETRY_TOTAL
    /\ attempts' = attempts + 1
    /\ UNCHANGED <<environ, config_name, maxsize, site_vars, languages_vars, thread_vars, posted_url, now, last_rate_limit_hit, cache, pc, req, prim,
                   n_primary, n_secondary, ret, ret_line>>

\* get_supported_languages returning one dict of the module on every call: the
\* dict its callers already hold.
SharedDict == IF supported = NoMapping THEN SupportedLanguages ELSE supported

\* The dict display of lines 330-343 builds a new dict on every call.
DictDisplay == SupportedLanguages

\* get_supported_languages(), called between two translate_text calls as the
\* context processor and the index view do.
get_supported_languages ==
    /\ pc = "idle"
    /\ languages' = DictDisplay
    /\ supported' = DictDisplay
    /\ UNCHANGED <<translation_vars, thread_vars, site_vars>>

\* The caller changes the dict it was given: supported_languages.pop(code).
CallerPops(code) ==
    /\ pc = "idle"
    /\ supported # NoMapping
    /\ code \in DOMAIN supported
    /\ supported' = [c \in DOMAIN supported \ {code} |-> supported[c]]
    /\ UNCHANGED <<translation_vars, thread_vars, site_vars, languages>>

\* Time passes between two calls; a call reads one time.time().
Tick(d) ==
    /\ pc = "idle"
    /\ now + d <= MaxTime
    /\ now' = now + d
    /\ UNCHANGED <<environ, config_name, maxsize, site_vars, languages_vars, thread_vars, posted_url, last_rate_limit_hit, cache, pc, req, prim,
                   attempts, n_primary, n_secondary, ret, ret_line>>

\* Days pass between two calls.
DaysPass ==
    /\ pc = "idle"
    /\ now <= MaxTime
    /\ now' = now + LongWait
    /\ UNCHANGED <<environ, config_name, maxsize, site_vars, languages_vars, thread_vars, posted_url, last_rate_limit_hit, cache, pc, req, prim,
                   attempts, n_primary, n_secondary, ret, ret_line>>

Next ==
    \/ \E text \in Texts, target_lang \in TargetLangs, source_lang \in SourceLangs :
          translate_text(text, target_lang, source_lang)
    \/ \E resp \in PrimaryResponses : CachedPrimary(resp)
    \/ \E resp \in SecondaryResponses : CachedSecondary(resp)
    \/ \E resp \in PrimaryResponses : DirectPrimary(resp)
    \/ \E resp \in SecondaryResponses : DirectSecondary(resp)
    \/ \E resp \in PrimaryResponses \cup SecondaryResponses : SessionRetry(resp)
    \/ \E d \in TickSteps : Tick(d)

Spec == Init /\ [][Next]_vars

\* A request in progress ends: every HTTP attempt gets a response or runs
\* into the timeout of 5 seconds (timeout=5, lines 204 and 278), and the
\* session then sends it again or hands the outcome to the adapter.
RequestEnds ==
    \/ \E resp \in PrimaryResponses : CachedPrimary(resp)
    \/ \E resp \in SecondaryResponses : CachedSecondary(resp)
    \/ \E resp \in PrimaryResponses : DirectPrimary(resp)
    \/ \E resp \in SecondaryResponses : DirectSecondary(resp)
    \/ \E resp \in PrimaryResponses \cup SecondaryResponses : SessionRetry(resp)

\* The process with translation enabled, and the default endpoint or none.
InitLive ==
    /\ Init
    /\ environ.TRANSLATION_ENABLED = Absent
    /\ environ.TRANSLATION_API_URL \in {Absent, Str(<<>>)}
    /\ config_name = "development"

\* The calls of translate_text with requests that end.
SpecLive == InitLive /\ [][Next]_vars /\ WF_vars(RequestEnds)

\* The calls of translate_text for more keys than the cache holds: a cache of
\* one entry more than CacheCapacity, texts asked for in four target languages
\* other than 'en', and no endpoint configured, so that MyMemory is the only
\* provider.  The calls follow each other within the same second.
CacheTargetLangs == {"en", "es", "fr", "de", "hi"}

InitCache ==
    /\ Imported(CacheCapacity + 1)
    /\ environ.TRANSLATION_API_URL = Str(<<>>)

NextCache ==
    \/ \E text \in Texts, target_lang \in CacheTargetLangs :
          translate_text(text, target_lang, "auto")
    \/ \E resp \in SecondaryResponses : CachedSecondary(resp)
    \/ \E resp \in SecondaryResponses : DirectSecondary(resp)
    \/ \E resp \in SecondaryResponses : SessionRetry(resp)

SpecCache == InitCache /\ [][NextCache]_vars

\* translate_text and get_supported_languages, with callers that change the
\* dict they were given.
PoppedCodes == {"en"}

NextLanguages ==
    \/ Next
    \/ get_supported_languages
    \/ \E code \in PoppedCodes : CallerPops(code)

SpecLanguages == Init /\ [][NextLanguages]_vars

\* The same program watched for days.
NextDays == Next \/ DaysPass

SpecDays == Init /\ [][NextDays]_vars

(***************************************************************************)
(* Concurrent translate_text calls: the threads of one process call        *)
(* translate_text for the same text and languages at the same time.  They  *)
(* share the lru_cache and _last_rate_limit_hit and nothing else; the code *)
(* takes no lock, and lru_cache guards its own bookkeeping only.  A step   *)
(* of a thread is the code between two points at which it can be switched  *)
(* out with a shared variable in hand: the tests up to the cooldown check  *)
(* (ThreadStart), the cache lookup of the lru_cache wrapper (ThreadLookup) *)
(* and one step per provider request, from the response to the next        *)
(* request or to the return, with the retries of the session inside.       *)
(***************************************************************************)
ThreadRequest == [text |-> Hello, target_lang |-> "es", source_lang |-> "auto"]
ThreadKey ==
    CacheKey(ApiUrl, ThreadRequest.text, ThreadRequest.target_lang,
             ThreadRequest.source_lang)

\* The responses of the providers to the concurrent calls.
ThreadPrimaryResponses ==
    {HttpResponse(429, "non_json"), NetworkError("timeout"),
     PrimaryObject(Str(Hola), Absent, Absent)}
ThreadSecondaryResponses ==
    {HttpResponse(429, "non_json"), NetworkError("timeout"),
     HttpResponse(200, "non_object"), SecondaryObject(200, "object", Str(Hola))}

\* A thread about to call translate_text.
ReadyThread ==
    [pc |-> "ready", ret |-> NoValue, n_primary |-> 0, n_secondary |-> 0,
     raised |-> FALSE,      \* the cached call of the thread raised
     recorded |-> FALSE,    \* the thread set _last_rate_limit_hit
     slipped |-> FALSE]     \* the thread sent a request during a cooldown

\* The thread sends a provider request: the place it waits at, and whether a
\* rate-limit hit was within its cooldown as the request left.
Sending(t, place) ==
    [thread[t] EXCEPT !.pc = place, !.slipped = @ \/ InCooldown]

\* The thread's translate_text returns value.
Returning(t, value) == [thread[t] EXCEPT !.pc = "done", !.ret = value]

\* The lru_cache wrapper, after the call returned its result: it keeps the
\* entry another thread added for the key meanwhile and adds the result
\* otherwise.
CacheStore(c, key, value) == IF CacheHas(c, key) THEN c ELSE CachePut(c, key, value)

\* translate_text, lines 78-109: the tests before the cached call.
ThreadStart(t) ==
    /\ thread[t].pc = "ready"
    /\ thread' =
          [thread EXCEPT ![t] =
              IF \/ NoTranslationNeeded(ThreadRequest.text, ThreadRequest.target_lang)
                 \/ EnvDisabled
                 \/ ConfigDisabled
                 \/ InCooldown
              THEN Returning(t, Str(ThreadRequest.text))
              ELSE [thread[t] EXCEPT !.pc = "lookup"]]
    /\ UNCHANGED <<environ, config_name, maxsize, site_vars, now, last_rate_limit_hit, cache, obtained,
                   call_vars, languages_vars>>

\* translate_text, line 115: the wrapper of _cached_translate_call finds the
\* key, or calls the function, which sends the first request.
ThreadLookup(t) ==
    /\ thread[t].pc = "lookup"
    /\ IF CacheHas(cache, ThreadKey)
       THEN /\ cache' = CacheTouch(cache, ThreadKey)
            /\ thread' = [thread EXCEPT ![t] = Returning(t, CacheValue(cache, ThreadKey))]
       ELSE /\ cache' = cache
            /\ thread' =
                  [thread EXCEPT ![t] =
                      Sending(t, IF ApiUrlConfigured THEN "cached_primary"
                                 ELSE "cached_secondary")]
    /\ UNCHANGED <<environ, config_name, maxsize, site_vars, now, last_rate_limit_hit, obtained,
                   call_vars, languages_vars>>

\* _cached_translate_call returned value to its wrapper, which stores it, and
\* lines 116-117 return it; slicing a value that cannot be sliced raises, and
\* line 118 catches that.
ThreadCachedCallReturns(t, counted, value) ==
    /\ obtained' = obtained \cup {value}
    /\ cache' = CacheStore(cache, ThreadKey, value)
    /\ thread' =
          [thread EXCEPT ![t] =
              IF ~Sliceable(value)
              THEN [Sending(t, DirectCall) EXCEPT
                       !.n_primary = counted.n_primary,
                       !.n_secondary = counted.n_secondary]
              ELSE [Returning(t, value) EXCEPT
                       !.n_primary = counted.n_primary,
                       !.n_secondary = counted.n_secondary]]

\* _cached_translate_call, line 147, in thread t.
ThreadCachedPrimary(t, resp) ==
    /\ thread[t].pc = "cached_primary"
    /\ LET outcome == translate_with_libretranslate(ApiUrl, resp)
           counted == [thread[t] EXCEPT !.n_primary = @ + 1]
       IN  /\ RecordHit(outcome)
           /\ IF outcome.raised
              THEN /\ thread' =
                         [thread EXCEPT ![t] =
                             [Sending(t, "cached_secondary") EXCEPT
                                 !.n_primary = counted.n_primary,
                                 !.recorded = @ \/ outcome.hit]]
                   /\ UNCHANGED <<cache, obtained>>
              ELSE ThreadCachedCallReturns(t, counted, outcome.value)
    /\ UNCHANGED <<environ, config_name, maxsize, site_vars, now, call_vars, languages_vars>>

\* _cached_translate_call, lines 150 and 152, in thread t.
ThreadCachedSecondary(t, resp) ==
    /\ thread[t].pc = "cached_secondary"
    /\ LET outcome == translate_with_mymemory(ThreadRequest.text, resp)
           counted ==
               [thread[t] EXCEPT !.n_secondary = @ + 1, !.recorded = @ \/ outcome.hit,
                                 !.raised = @ \/ outcome.raised]
       IN  /\ RecordHit(outcome)
           /\ IF outcome.raised
              THEN /\ thread' =
                         [thread EXCEPT ![t] =
                             [counted EXCEPT !.pc = DirectCall,
                                             !.slipped = @ \/ InCooldown]]
                   /\ UNCHANGED <<cache, obtained>>
              ELSE /\ ThreadCachedCallReturns(t, counted, outcome.value)
    /\ UNCHANGED <<environ, config_name, maxsize, site_vars, now, call_vars, languages_vars>>

\* translate_text, lines 124-126, in thread t.
ThreadDirectPrimary(t, resp) ==
    /\ thread[t].pc = "direct_primary"
    /\ LET outcome == translate_with_libretranslate(ApiUrl, resp)
           counted ==
               [thread[t] EXCEPT !.n_primary = @ + 1, !.recorded = @ \/ outcome.hit]
       IN  /\ RecordHit(outcome)
           /\ IF outcome.raised
              THEN /\ thread' =
                         [thread EXCEPT ![t] =
                             [counted EXCEPT !.pc = "direct_secondary",
                                             !.slipped = @ \/ InCooldown]]
                   /\ UNCHANGED obtained
              ELSE /\ thread' =
                         [thread EXCEPT ![t] =
                             [counted EXCEPT !.pc = "done", !.ret = outcome.value]]
                   /\ obtained' = obtained \cup {outcome.value}
    /\ UNCHANGED <<environ, config_name, maxsize, site_vars, now, cache, call_vars, languages_vars>>

\* translate_text, lines 129, 132 and 136, in thread t.
ThreadDirectSecondary(t, resp) ==
    /\ thread[t].pc = "direct_secondary"
    /\ LET outcome == translate_with_mymemory(ThreadRequest.text, resp)
           counted ==
               [thread[t] EXCEPT !.n_secondary = @ + 1, !.recorded = @ \/ outcome.hit]
       IN  /\ RecordHit(outcome)
           /\ IF outcome.raised
              THEN /\ thread' =
                         [thread EXCEPT ![t] =
                             [counted EXCEPT !.pc = "done",
                                             !.ret = Str(ThreadRequest.text)]]
                   /\ UNCHANGED obtained
              ELSE /\ thread' =
                         [thread EXCEPT ![t] =
                             [counted EXCEPT !.pc = "done", !.ret = outcome.value]]
                   /\ obtained' = obtained \cup {outcome.value}
    /\ UNCHANGED <<environ, config_name, maxsize, site_vars, now, cache, call_vars, languages_vars>>

NextThreads ==
    \E t \in DOMAIN thread :
        \/ ThreadStart(t)
        \/ ThreadLookup(t)
        \/ \E resp \in ThreadPrimaryResponses : ThreadCachedPrimary(t, resp)
        \/ \E resp \in ThreadSecondaryResponses : ThreadCachedSecondary(t, resp)
        \/ \E resp \in ThreadPrimaryResponses : ThreadDirectPrimary(t, resp)
        \/ \E resp \in ThreadSecondaryResponses : ThreadDirectSecondary(t, resp)

\* The process with translation enabled and the default endpoint, and n
\* threads about to call translate_text.
InitThreads(n) ==
    /\ environ = [TRANSLATION_ENABLED |-> Absent, TRANSLATION_API_URL |-> Absent,
                  TRANSLATION_API_KEY |-> Absent]
    /\ config_name = "development"
    /\ now = 1
    /\ last_rate_limit_hit = 0
    /\ cache = <<>>
    /\ maxsize = CacheCapacity
    /\ pc = "idle"
    /\ req = NoRequest
    /\ prim = NoResponse
    /\ posted_url = NoUrl
    /\ attempts = 0
    /\ n_primary = 0
    /\ n_secondary = 0
    /\ ret = NoValue
    /\ ret_line = 0
    /\ languages = NoMapping
    /\ supported = NoMapping
    /\ thread = [t \in 1..n |-> ReadyThread]
    /\ obtained = {}
    /\ InitSite

\* MaxCallers threads call translate_text for the same key.
SpecThreads == InitThreads(MaxCallers) /\ [][NextThreads]_vars

(***************************************************************************)
(* The routes of the site (routes/auth.py, routes/posts.py), one action    *)
(* per request of the browser: the view function from the request to the   *)
(* response, with the commit or the rollback of its database session.  A   *)
(* commit can fail, and the view functions then roll back.                 *)
(***************************************************************************)
Methods == {"GET", "POST"}

\* current_user.is_authenticated
IsAuthenticated == session.user_id # Anonymous

\* @login_required for a browser that is not logged in:
\* login_manager.unauthorized() with login_view and login_message of app.py.
Unauthorized == Redirect("auth.login", "Please log in to access this page.")

\* User.query.filter_by(email=email).first(): the user_id of the row, or
\* Anonymous for None.
UserByEmail(email) ==
    IF \E u \in UserIds : users[u].email = email
    THEN CHOOSE u \in UserIds : users[u].email = email
    ELSE Anonymous

\* An author check that lets every logged-in user pass.
IsAuthorAnyone(p, user_id) == TRUE

\* not (post.author_id != current_user.user_id), posts.py lines 90 and 134
IsAuthor(p, user_id) == p.author_id = user_id

\* auth.login
login(method, email, password) ==
    /\ IF IsAuthenticated
       THEN /\ response' = Redirect("main.index", "")
            /\ UNCHANGED session
       ELSE IF method = "POST"
       THEN LET user == UserByEmail(email)
            IN  IF /\ user # Anonymous
                   /\ check_password_hash(users[user].password, password)
                THEN /\ session' = [session EXCEPT !.user_id = user]
                     /\ response' = Redirect("main.index", "Logged in successfully!")
                ELSE /\ response' =
                          RenderTemplate("auth/login.html", "Invalid email or password")
                     /\ UNCHANGED session
       ELSE /\ response' = RenderTemplate("auth/login.html", "")
            /\ UNCHANGED session
    /\ UNCHANGED <<users, post, service_vars>>

\* auth.logout
logout ==
    /\ session' = [session EXCEPT !.user_id = Anonymous]
    /\ response' = Redirect("main.index", "You have been logged out.")
    /\ UNCHANGED <<users, post, service_vars>>

\* posts.create
create(method, form) ==
    /\ IF ~IsAuthenticated
       THEN response' = Unauthorized /\ UNCHANGED post
       ELSE IF method = "POST"
       THEN /\ \E i \in PostIds : post[i] = NoPost
            /\ LET post_id == CHOOSE i \in PostIds :
                                 post[i] = NoPost /\ \A j \in PostIds : post[j] = NoPost => i <= j
                   row == [author_id |-> session.user_id, category |-> form.category,
                           status |-> form.status, title |-> form.title,
                           content |-> form.content]
               IN  \E committed \in BOOLEAN :
                      IF committed
                      THEN /\ post' = [post EXCEPT ![post_id] = row]
                           /\ response' = Redirect("posts.view", "Post created successfully!")
                      ELSE /\ post' = post
                           /\ response' =
                                 RenderTemplate("posts/create.html",
                                                "An error occurred while creating the post.")
       ELSE response' = RenderTemplate("posts/create.html", "") /\ UNCHANGED post
    /\ UNCHANGED <<users, session, service_vars>>

\* posts.view: for a lang other than 'en' the translated texts are assigned to
\* the objects of the request's database session, which is never committed
\* and is removed with the request; the rows stay as they are.
view(post_id, lang) ==
    /\ response' = IF post[post_id] = NoPost THEN NotFound
                   ELSE RenderTemplate("posts/view.html", "")
    /\ UNCHANGED <<users, post, session, service_vars>>

\* posts.edit
edit(post_id, method, form) ==
    /\ IF ~IsAuthenticated
       THEN response' = Unauthorized /\ UNCHANGED post
       ELSE IF post[post_id] = NoPost
       THEN response' = NotFound /\ UNCHANGED post
       ELSE IF ~IsAuthor(post[post_id], session.user_id)
       THEN /\ response' =
                 Redirect("posts.view", "You do not have permission to edit this post.")
            /\ UNCHANGED post
       ELSE IF method = "POST"
       THEN \E committed \in BOOLEAN :
               IF committed
               THEN /\ post' = [post EXCEPT ![post_id] =
                                   [@ EXCEPT !.category = form.category,
                                             !.status = form.status,
                                             !.title = form.title,
                                             !.content = form.content]]
                    /\ response' = Redirect("posts.view", "Post updated successfully!")
               ELSE /\ post' = post
                    /\ response' =
                          RenderTemplate("posts/edit.html",
                                         "An error occurred while updating the post.")
       ELSE response' = RenderTemplate("posts/edit.html", "") /\ UNCHANGED post
    /\ UNCHANGED <<users, session, service_vars>>

\* posts.delete, a POST request
delete(post_id) ==
    /\ IF ~IsAuthenticated
       THEN response' = Unauthorized /\ UNCHANGED post
       ELSE IF post[post_id] = NoPost
       THEN response' = NotFound /\ UNCHANGED post
       ELSE IF ~IsAuthor(post[post_id], session.user_id)
       THEN /\ response' =
                 Redirect("posts.view", "You do not have permission to delete this post.")
            /\ UNCHANGED post
       ELSE \E committed \in BOOLEAN :
               IF committed
               THEN /\ post' = [post EXCEPT ![post_id] = NoPost]
                    /\ response' = Redirect("main.index", "Post deleted successfully!")
               ELSE /\ post' = post
                    /\ response' =
                          Redirect("posts.view", "An error occurred while deleting the post.")
    /\ UNCHANGED <<users, session, service_vars>>

\* user.id, auth.py lines 203-211: the attribute of the User object that holds
\* its key.  The class has user_id and no attribute id.
UserKeyAttribute == "id"

\* auth.forgot_password.  For a registered e-mail the token is made and
\* f'reset_token_{user.id}' is evaluated: a User has no attribute id, the
\* AttributeError leaves the view function and the request ends in the error
\* response, with nothing stored in the session.
forgot_password(method, email, reset_token) ==
    /\ IF IsAuthenticated
       THEN response' = Redirect("main.index", "") /\ UNCHANGED session
       ELSE IF method = "POST"
       THEN LET user == UserByEmail(email)
            IN  IF user # Anonymous
                THEN IF UserKeyAttribute \in UserAttributes
                     THEN /\ session' = [session EXCEPT !.reset_token[user] = reset_token]
                          /\ response' =
                                [RenderTemplate("auth/forgot_password.html",
                                     "Password reset link sent to your email (check for reset link below).")
                                 EXCEPT !.reset_link =
                                            [user_id |-> user, token |-> reset_token]]
                     ELSE response' = InternalError /\ UNCHANGED session
                ELSE /\ response' =
                          Redirect("auth.login",
                              "If an account exists with that email, a reset link has been sent.")
                     /\ UNCHANGED session
       ELSE response' = RenderTemplate("auth/forgot_password.html", "") /\ UNCHANGED session
    /\ UNCHANGED <<users, post, service_vars>>

\* auth.reset_password
reset_password(user_id, token, method, new_password, confirm_password) ==
    /\ IF IsAuthenticated
       THEN response' = Redirect("main.index", "") /\ UNCHANGED <<users, session>>
       ELSE IF user_id \notin UserIds
       THEN /\ response' = Redirect("auth.login", "Invalid reset link.")
            /\ UNCHANGED <<users, session>>
       ELSE IF session.reset_token[user_id] = NoToken \/ session.reset_token[user_id] # token
       THEN /\ response' = Redirect("auth.forgot_password", "Reset link expired or invalid.")
            /\ UNCHANGED <<users, session>>
       ELSE IF method = "POST"
       THEN IF new_password = <<>> \/ confirm_password = <<>>
            THEN /\ response' =
                      RenderTemplate("auth/reset_password.html", "Please fill out all fields.")
                 /\ UNCHANGED <<users, session>>
            ELSE IF new_password # confirm_password
            THEN /\ response' =
                      RenderTemplate("auth/reset_password.html", "Passwords do not match.")
                 /\ UNCHANGED <<users, session>>
            ELSE IF Len(new_password) < 6
            THEN /\ response' =
                      RenderTemplate("auth/reset_password.html",
                                     "Password must be at least 6 characters.")
                 /\ UNCHANGED <<users, session>>
            ELSE \E committed \in BOOLEAN :
                    IF committed
                    THEN /\ users' = [users EXCEPT ![user_id].password =
                                         generate_password_hash(new_password)]
                         /\ session' = [session EXCEPT !.reset_token[user_id] = NoToken]
                         /\ response' =
                               Redirect("auth.login",
                                        "Password reset successfully. Please log in.")
                    ELSE /\ response' =
                               RenderTemplate("auth/reset_password.html",
                                              "Failed to reset password. Please try again.")
                         /\ UNCHANGED <<users, session>>
       ELSE /\ response' = RenderTemplate("auth/reset_password.html", "")
            /\ UNCHANGED <<users, session>>
    /\ UNCHANGED <<post, service_vars>>

\* The user ids a reset url can name: the users and one more.
UrlUserIds == UserIds \cup {3}
Langs == {"en", "es"}

NextSite ==
    \/ \E method \in Methods, email \in Emails, password \in {OldPassword, NewPassword} :
          login(method, email, password)
    \/ logout
    \/ \E method \in Methods, form \in PostForms : create(method, form)
    \/ \E post_id \in PostIds, lang \in Langs : view(post_id, lang)
    \/ \E post_id \in PostIds, method \in Methods, form \in PostForms :
          edit(post_id, method, form)
    \/ \E post_id \in PostIds : delete(post_id)
    \/ \E method \in Methods, email \in Emails, reset_token \in Tokens :
          forgot_password(method, email, reset_token)
    \/ \E user_id \in UrlUserIds, token \in UrlTokens, method \in Methods,
          new_password \in NewPasswords :
          \E confirm_password \in Confirmations(new_password) :
             reset_password(user_id, token, method, new_password, confirm_password)

\* The site of a process with the default configuration.
InitSiteOnly ==
    /\ Init
    /\ environ = [TRANSLATION_ENABLED |-> Absent, TRANSLATION_API_URL |-> Absent,
                  TRANSLATION_API_KEY |-> Absent]
    /\ config_name = "development"

SpecSite == InitSiteOnly /\ [][NextSite]_vars

(***************************************************************************)
(* Vocabulary of the claims, stated on the responses and not through the   *)
(* adapters.                                                               *)
(***************************************************************************)
\* A call has returned and none is in progress.
HasReturned == pc = "idle" /\ ret_line # 0

\* The translations a provider can answer for Hello: another string, or Hello.
Translations == {Hola, Hello}

\* The primary's valid responses holding the translated string t.
PrimaryValid(t) ==
    {PrimaryObject(Str(t), Absent, Absent), PrimaryObject(Str(<<>>), Null, Str(t))}

\* The secondary's response with responseStatus 200 and the translation t.
SecondaryValid(t) == SecondaryObject(200, "object", Str(t))

\* The primary or the secondary answered HTTP 429.
IsRateLimit(resp) == resp.kind = "response" /\ resp.status = 429

\* A provider request that failed: anything but a valid response with a
\* translated string.
PrimaryFailed(resp) ==
    resp # NoResponse /\ \A t \in Translations : resp \notin PrimaryValid(t)
SecondaryFailed(resp) == \A t \in Translations : resp # SecondaryValid(t)

\* The primary's failures that are no rate limit: a timeout, a connection
\* error, an HTTP status >= 400, a body that is not JSON or no JSON object, an
\* object without a translated-text field.
PrimaryOtherFailures ==
    Unanswered
    \cup {HttpResponse(500, "non_json"), HttpResponse(200, "non_json"),
          HttpResponse(200, "non_object"), PrimaryObject(Absent, Absent, Absent)}

\* str.strip() leaves nothing of text.
IsBlankText(text) == \A i \in 1..Len(text) : text[i] \in Whitespace

\* Fewer than 60 seconds have passed since a recorded rate-limit hit.
HitWithinWindow == last_rate_limit_hit # 0 /\ now < last_rate_limit_hit + 60

\* The request of the step is the one of the call before it.
SameRequest(text, target_lang, source_lang) ==
    req = [text |-> text, target_lang |-> target_lang, source_lang |-> source_lang]

\* The step sent no provider request and the call returned in it.
ReturnedAtOnce == pc' = "idle" /\ n_primary' = 0 /\ n_secondary' = 0

(***************************************************************************)
(* C1: translate_text returns a string to its caller, whatever the         *)
(* providers answered, and lets no exception out.  The code returns a list *)
(* when a provider's translated-text field holds a list.                   *)
(***************************************************************************)
C1_ReturnsString == HasReturned => ret.type = "str"

(***************************************************************************)
(* C2: when the primary request failed and the secondary request failed    *)
(* too, translate_text returns the original text.  The code returns the    *)
(* secondary's malformed translated-text value when that is a list.        *)
(***************************************************************************)
C2_BothFailReturnsText ==
    [][\A resp \in SecondaryResponses :
          ( /\ CachedSecondary(resp) \/ DirectSecondary(resp)
            /\ pc' = "idle"
            /\ PrimaryFailed(prim)
            /\ SecondaryFailed(resp) )
          => ret' = Str(req.text)]_vars

C4_CooldownReturnsText ==
    [][\A text \in Texts, target_lang \in TargetLangs, source_lang \in SourceLangs :
          (translate_text(text, target_lang, source_lang) /\ HitWithinWindow)
          => ReturnedAtOnce /\ ret' = Str(text)]_vars

\* A call in the cooldown for a key whose translation is cached, made after
\* the time of the hit.
C4_Witness ==
    /\ HasReturned
    /\ ret_line = 109
    /\ HitWithinWindow
    /\ now > last_rate_limit_hit
    /\ CacheHas(cache, ReqKey)
    /\ CacheValue(cache, ReqKey) = Str(Hola)
    /\ ret = Str(req.text)
    /\ n_primary = 0 /\ n_secondary = 0

(***************************************************************************)
(* C5: when the primary answers HTTP 429 and the secondary a successful    *)
(* translation T, the call returns T and _last_rate_limit_hit holds the    *)
(* time of that call.                                                      *)
(***************************************************************************)
C5_FallbackAfterRateLimit ==
    [][\A t \in Translations :
          ( /\ CachedSecondary(SecondaryValid(t))
            /\ n_primary = 1
            /\ IsRateLimit(prim) )
          => /\ pc' = "idle"
             /\ ret' = Str(t)
             /\ last_rate_limit_hit' # 0
             /\ last_rate_limit_hit' = now']_vars

C5_Witness ==
    /\ HasReturned
    /\ IsRateLimit(prim)
    /\ n_primary = 1 /\ n_secondary = 1
    /\ ret = Str(Hola)
    /\ last_rate_limit_hit = now

(***************************************************************************)
(* C6: translate_text with the source language equal to the target         *)
(* language returns text unchanged and sends no provider request.  The     *)
(* code compares the target with 'en' only.                                *)
(***************************************************************************)
C6_SameLanguageUnchanged ==
    (req # NoRequest /\ req.source_lang = req.target_lang)
    => /\ pc = "idle"
       /\ n_primary = 0 /\ n_secondary = 0
       /\ ret = Str(req.text)

(***************************************************************************)
(* C7: for an empty or whitespace-only text translate_text returns the     *)
(* text unchanged, sends no provider request and adds no cache entry,      *)
(* whatever the languages, the configuration and the cooldown state.       *)
(***************************************************************************)
C7_BlankTextUnchanged ==
    [][\A text \in Texts, target_lang \in TargetLangs, source_lang \in SourceLangs :
          (translate_text(text, target_lang, source_lang) /\ IsBlankText(text))
          => /\ ReturnedAtOnce
             /\ ret' = Str(text)
             /\ cache' = cache]_vars

\* A whitespace-only text with a target other than 'en', translation enabled,
\* no cooldown, and a cache that holds an entry.
C7_Witness ==
    /\ HasReturned
    /\ req.text = Blank
    /\ req.target_lang = "es"
    /\ ~EnvDisabled /\ ~ConfigDisabled /\ ~HitWithinWindow
    /\ cache # <<>>
    /\ ret = Str(Blank)
    /\ ret_line = 80

(***************************************************************************)
(* C8: when the environment variable TRANSLATION_ENABLED is 'false' or the *)
(* app's config flag TRANSLATION_ENABLED is False, translate_text returns  *)
(* its text unchanged and sends no provider request.                       *)
(***************************************************************************)
C8_DisabledIsPassthrough ==
    ( \/ environ.TRANSLATION_ENABLED = Str(EnvFalse)
      \/ ~ConfigEnabled(config_name, environ) )
    => /\ pc = "idle"
       /\ n_primary = 0 /\ n_secondary = 0
       /\ HasReturned => ret = Str(req.text)

\* The config flag alone disables a call that would otherwise translate.
C8_Witness ==
    /\ HasReturned
    /\ ~ConfigEnabled(config_name, environ)
    /\ environ.TRANSLATION_ENABLED # Str(EnvFalse)
    /\ req.text = Hello /\ req.target_lang = "es"
    /\ ret = Str(Hello)
    /\ ret_line = 93

(***************************************************************************)
(* C9: when the primary returns a valid response with the translated       *)
(* string T, translate_text returns T and caches it for the key; the entry *)
(* keeps its value while it is in the cache, and a later call that finds   *)
(* it, outside the cooldown, returns it and sends no provider request.     *)
(***************************************************************************)
C9_PrimarySuccessCached ==
    [][/\ \A t \in Translations : \A resp \in PrimaryValid(t) :
             CachedPrimary(resp)
             => /\ pc' = "idle"
                /\ ret' = Str(t)
                /\ CacheHas(cache', ReqKey)
                /\ CacheValue(cache', ReqKey) = Str(t)
       /\ \A i \in 1..Len(cache) :
             CacheHas(cache', cache[i].key)
             => CacheValue(cache', cache[i].key) = cache[i].value
       /\ \A text \in Texts, target_lang \in TargetLangs, source_lang \in SourceLangs :
             ( /\ translate_text(text, target_lang, source_lang)
               /\ ~NoTranslationNeeded(text, target_lang)
               /\ ~HitWithinWindow
               /\ CacheHas(cache, CacheKey(ApiUrl, text, target_lang, source_lang)) )
             => /\ ReturnedAtOnce
                /\ ret' = CacheValue(cache, CacheKey(ApiUrl, text, target_lang, source_lang))]_vars

\* The primary answered Hello for Hello: the call returned it and it is cached.
C9_Witness ==
    /\ HasReturned
    /\ prim \in PrimaryValid(Hello)
    /\ n_primary = 1 /\ n_secondary = 0
    /\ ret = Str(Hello)
    /\ CacheHas(cache, ReqKey)
    /\ CacheValue(cache, ReqKey) = Str(Hello)

(***************************************************************************)
(* C10: after a failure of the primary that is no rate limit, the call     *)
(* goes on to the secondary, and when the secondary answers responseStatus *)
(* 200 with the translation T the call returns T.                          *)
(***************************************************************************)
C10_FallbackAfterFailure ==
    [][/\ \A resp \in PrimaryOtherFailures :
             CachedPrimary(resp) => pc' = "cached_secondary"
       /\ \A t \in Translations :
             ( /\ CachedSecondary(SecondaryValid(t))
               /\ prim \in PrimaryOtherFailures )
             => pc' = "idle" /\ ret' = Str(t)]_vars

\* The primary timed out, the secondary answered Hola, the call returned it.
C10_Witness ==
    /\ HasReturned
    /\ prim = NetworkError("timeout")
    /\ n_primary = 1 /\ n_secondary = 1
    /\ ret = Str(Hola)
    /\ ret_line = 117

(***************************************************************************)
(* Age of a cache entry.  The specification's time-to-live values are      *)
(* design constants the program does not have: 24 hours for a translation, *)
(* 5 minutes for the original text kept after a failure.                   *)
(***************************************************************************)
LONG_TTL == 24 * 3600
NEGATIVE_TTL == 5 * 60

\* The entry of key was added more than ttl seconds ago: whole days lie
\* between the day it was added on and today, and they are longer than ttl.
Expired(key, ttl) ==
    /\ CacheHas(cache, key)
    /\ ((now \div DaySeconds) - cache[CacheIndex(cache, key)].day - 1) * DaySeconds > ttl

(***************************************************************************)
(* C11: a translate_text call made after the cache entry of its key has    *)
(* expired does not return the value out of the cache: it sends a provider *)
(* request.  The code's lru_cache has no time-to-live: the entry is        *)
(* returned days later.                                                    *)
(***************************************************************************)
C11_ExpiredEntryNotReturned ==
    [][\A text \in Texts, target_lang \in TargetLangs, source_lang \in SourceLangs :
          ( /\ translate_text(text, target_lang, source_lang)
            /\ Expired(CacheKey(ApiUrl, text, target_lang, source_lang), LONG_TTL)
            /\ ~HitWithinWindow )
          => /\ ret_line' # 117
             /\ pc' \in ProviderPcs]_vars

(***************************************************************************)
(* C12: after a call whose translation failed at the secondary provider    *)
(* (the primary failed or is not configured, and the call returned the     *)
(* original text through the cached call), an identical call outside the   *)
(* cooldown is answered with no provider request while the entry is        *)
(* younger than the negative time-to-live, and sends a provider request    *)
(* once the entry is older.  The code keeps the original text in the cache *)
(* without a time limit.                                                   *)
(***************************************************************************)
C12_NegativeEntryExpires ==
    [][\A text \in Texts, target_lang \in TargetLangs, source_lang \in SourceLangs :
          ( /\ translate_text(text, target_lang, source_lang)
            /\ HasReturned
            /\ SameRequest(text, target_lang, source_lang)
            /\ ret_line = 117
            /\ ret = Str(text)
            /\ n_secondary = 1
            /\ ~HitWithinWindow )
          => IF Expired(CacheKey(ApiUrl, text, target_lang, source_lang), NEGATIVE_TTL)
             THEN pc' \in ProviderPcs
             ELSE ReturnedAtOnce /\ ret' = Str(text)]_vars

\* The step is the return of _session.post to the primary adapter (prim' is
\* the response), of _session.get to the secondary adapter.
PrimaryAnswers == pc \in PrimaryPcs /\ pc' # pc
SecondaryAnswers == pc \in SecondaryPcs /\ pc' # pc

\* The step is the secondary adapter's handling of resp.
SecondaryStep(resp) == CachedSecondary(resp) \/ DirectSecondary(resp)

\* The step sends a request to the primary, to the secondary provider: the call
\* comes to the place of the request, or the session sends the request again.
SendsToPrimary == pc' \in PrimaryPcs /\ (pc' # pc \/ attempts' = attempts + 1)
SendsToSecondary == pc' \in SecondaryPcs /\ (pc' # pc \/ attempts' = attempts + 1)

(***************************************************************************)
(* C13: one translate_text call sends at most one request to the primary   *)
(* provider and at most one to the secondary provider: every request a     *)
(* step sends is the first one of the call to its provider.  The code's    *)
(* session sends a request again up to RETRY_TOTAL times, and after an     *)
(* exception out of the cached call both providers are called a second     *)
(* time.                                                                   *)
(***************************************************************************)
C13_AtMostTwoRequests ==
    [][/\ SendsToPrimary => (pc' # pc /\ n_primary' = 0)
       /\ SendsToSecondary => (pc' # pc /\ n_secondary' = 0)]_vars

(***************************************************************************)
(* C14: every request the primary adapter sends goes to an https:// url,   *)
(* whatever TRANSLATION_API_URL is.  The code rewrites the lower-case      *)
(* prefix 'http://' only: a request to 'HTTP://...' leaves over http.      *)
(***************************************************************************)
C14_PrimaryOverHttps == posted_url # NoUrl => WireScheme(posted_url) = "https"

C16_MymemoryNeverRaises ==
    [][SecondaryAnswers
       => /\ pc = "cached_secondary" => CacheHas(cache', ReqKey)
          /\ pc = "direct_secondary" => ret_line' \in {129, 132}]_vars

(***************************************************************************)
(* C17: when TRANSLATION_API_URL is empty or blank, translate_text sends   *)
(* no request to the primary provider, and a call that goes to a provider  *)
(* goes to the secondary one.                                              *)
(***************************************************************************)
C17_NoUrlNoPrimary ==
    environ.TRANSLATION_API_URL \in {Str(<<>>), Str(BlankApiUrl)}
    => /\ pc \notin PrimaryPcs
       /\ n_primary = 0
       /\ posted_url = NoUrl
       /\ pc # "idle" => pc \in SecondaryPcs

\* With a blank url the secondary provider translated the text.
C17_Witness ==
    /\ environ.TRANSLATION_API_URL = Str(BlankApiUrl)
    /\ HasReturned
    /\ n_primary = 0 /\ n_secondary = 1
    /\ ret = Str(Hola)
    /\ ret_line = 117

(***************************************************************************)
(* C20: every get_supported_languages call returns the same mapping of     *)
(* language codes to names, after any translate_text calls and whatever    *)
(* the callers did to the mapping an earlier call returned; it sends no    *)
(* provider request and leaves the cache and the cooldown state as they    *)
(* were.                                                                   *)
(***************************************************************************)
C20_SupportedLanguagesFixed ==
    /\ [](languages # NoMapping
          => /\ languages = SupportedLanguages
             /\ DOMAIN languages = LanguageCodes)
    /\ [][get_supported_languages
       => /\ languages' = SupportedLanguages
          /\ cache' = cache
          /\ last_rate_limit_hit' = last_rate_limit_hit
          /\ n_primary' = n_primary /\ n_secondary' = n_secondary
          /\ pc' = "idle" /\ attempts' = 0]_vars

\* A caller has changed the mapping it was given, after translate_text calls
\* that filled the cache and recorded a rate-limit hit.
C20_Witness ==
    /\ languages = SupportedLanguages
    /\ supported # NoMapping
    /\ "en" \notin DOMAIN supported
    /\ supported["es"] = "Spanish"
    /\ cache # <<>>
    /\ last_rate_limit_hit # 0

(***************************************************************************)
(* Concurrent calls.                                                       *)
(***************************************************************************)
Callers == DOMAIN thread
AllDone == Callers # {} /\ \A t \in Callers : thread[t].pc = "done"

\* Every thread made at most one round of provider requests: one to the
\* primary provider and one to the secondary.
OneRoundEach ==
    \A t \in Callers : thread[t].n_primary <= 1 /\ thread[t].n_secondary <= 1

\* The same, for the threads whose cached call did not raise.
OneRoundUnlessRaised ==
    \A t \in Callers :
        ~thread[t].raised => thread[t].n_primary <= 1 /\ thread[t].n_secondary <= 1

\* Two threads missed the cache for the key, each obtained a value of its own
\* from a provider, and the entry is the value of one of them.
RaceHappened ==
    /\ AllDone
    /\ \E t, u \in Callers :
           /\ thread[t].ret # thread[u].ret
           /\ thread[t].n_primary + thread[t].n_secondary > 0
           /\ thread[u].n_primary + thread[u].n_secondary > 0
           /\ ~thread[t].raised /\ ~thread[u].raised
           /\ CacheHas(cache, ThreadKey)
           /\ CacheValue(cache, ThreadKey) = thread[t].ret

\* Every thread that returned got the text or a value a provider adapter
\* returned to one of the calls, and once all have returned the entry of the
\* key, if there is one, is such a value.
RaceKeepsValues ==
    /\ \A t \in Callers :
           thread[t].pc = "done"
           => thread[t].ret \in {Str(ThreadRequest.text)} \cup obtained
    /\ (AllDone /\ CacheHas(cache, ThreadKey))
       => CacheValue(cache, ThreadKey) \in obtained

\* C18: under concurrent translate_text calls for the same key, every caller
\* makes at most one round of provider requests, every caller gets the
\* original text or a translation a provider returned for the key, and after
\* all the calls the cache entry of the key is a value one of them obtained.
C18_RaceOnlyRedundantCalls == OneRoundEach /\ RaceKeepsValues

\* C19: once a rate-limit hit is recorded, at most one other translate_text
\* invocation still sends a provider request inside the cooldown window.  The
\* threads counted sent a request while a recorded hit was within its
\* cooldown and recorded no hit themselves, so each is another invocation than
\* the one whose hit opened the window.
C19_AtMostOneSlipsThrough ==
    Cardinality({t \in Callers : thread[t].slipped /\ ~thread[t].recorded}) <= 1

(***************************************************************************)
(* C21: within one translate_text call the secondary provider is contacted *)
(* only after the primary provider was attempted and failed in that call,  *)
(* or when no primary endpoint is configured, and after a primary success  *)
(* in the call the secondary is not contacted.  A request to the secondary *)
(* is in progress only with no endpoint or with a failed last response of  *)
(* the primary in this call, and a valid answer of the primary ends the    *)
(* call.                                                                   *)
(***************************************************************************)
PrimarySucceeded(resp) == \E t \in Translations : resp \in PrimaryValid(t)

C21_SecondaryOnlyAfterPrimaryFailed ==
    /\ [](pc \in SecondaryPcs
          => \/ ~ApiUrlConfigured
             \/ n_primary >= 1 /\ PrimaryFailed(prim))
    /\ [][(PrimaryAnswers /\ PrimarySucceeded(prim'))
          => pc' = "idle" /\ n_secondary' = n_secondary]_vars

\* The primary failed in a call with an endpoint and the secondary is being
\* asked.
C21_Witness ==
    /\ pc = "cached_secondary" /\ ApiUrlConfigured
    /\ n_primary = 1 /\ PrimaryFailed(prim)

\* A call whose primary succeeded returned with no request to the secondary.
PrimarySuccessReturned == HasReturned /\ PrimarySucceeded(prim) /\ n_secondary = 0

(***************************************************************************)
(* C22: the cooldown blocks provider requests exactly while fewer than 60  *)
(* seconds have passed since the last recorded rate-limit hit.  An enabled *)
(* translate_text call for a text that is not blank, a target other than   *)
(* 'en' and a key that is not cached returns at once with no request while *)
(* a hit is less than 60 seconds old, and sends a provider request when no *)
(* hit was ever recorded or the last one is 60 seconds old or more.        *)
(***************************************************************************)
TranslationEnabled == ~EnvDisabled /\ ConfigEnabled(config_name, environ)

C22_CooldownBlocksExactly60 ==
    [][\A text \in Texts, target_lang \in TargetLangs, source_lang \in SourceLangs :
          ( /\ translate_text(text, target_lang, source_lang)
            /\ TranslationEnabled
            /\ ~IsBlankText(text)
            /\ target_lang # "en"
            /\ ~CacheHas(cache, CacheKey(ApiUrl, text, target_lang, source_lang)) )
          => IF HitWithinWindow
             THEN ReturnedAtOnce
             ELSE /\ pc' \in ProviderPcs
                  /\ pc' \in PrimaryPcs => EnforcedScheme[ApiUrl] # "unsent"]_vars

\* A call sends a provider request exactly 60 seconds after the recorded hit.
C22_Witness ==
    /\ pc \in ProviderPcs
    /\ n_primary = 0 /\ n_secondary = 0
    /\ last_rate_limit_hit # 0
    /\ now = last_rate_limit_hit + 60

(***************************************************************************)
(* C23: every translate_text call returns, after a bounded number of       *)
(* provider attempts, whatever the providers do, when every HTTP attempt   *)
(* ends in a response or in its timeout.  A call makes at most two session *)
(* calls to each provider (the cached call and the direct call after an    *)
(* exception), and a session call sends its request at most 1 +            *)
(* RETRY_TOTAL times.                                                      *)
(***************************************************************************)
MaxRounds == 2

C23_CallReturns ==
    /\ [](/\ n_primary <= MaxRounds /\ n_secondary <= MaxRounds
          /\ attempts <= RETRY_TOTAL)
    /\ (pc # "idle") ~> (pc = "idle")

\* A call returned after two session calls to each provider, the last one with
\* all its retries.
C23_Witness ==
    /\ HasReturned
    /\ n_primary = MaxRounds /\ n_secondary = MaxRounds
    /\ ret_line \in {129, 136}

(***************************************************************************)
(* C24: translate_text with the target language 'en' returns its text      *)
(* unchanged, sends no provider request and changes neither the cache nor  *)
(* the recorded rate-limit hit, whatever the text and the source language. *)
(***************************************************************************)
C24_TargetEnIsNoOp ==
    [][\A text \in Texts, source_lang \in SourceLangs :
          translate_text(text, "en", source_lang)
          => /\ ReturnedAtOnce
             /\ ret' = Str(text)
             /\ cache' = cache
             /\ last_rate_limit_hit' = last_rate_limit_hit]_vars

\* A call with target 'en' returned at line 80 where a call with another
\* target would have sent a request: translation is enabled, no cooldown is
\* running and the text is not blank.
C24_Witness ==
    /\ HasReturned
    /\ ret_line = 80
    /\ req.target_lang = "en" /\ req.source_lang = "es" /\ req.text = Hello
    /\ ret = Str(Hello)
    /\ TranslationEnabled
    /\ ~HitWithinWindow
    /\ n_primary = 0 /\ n_secondary = 0

(***************************************************************************)
(* C25: every value translate_text returns from the cache for a request    *)
(* (text, source, target) was produced by an earlier provider round for    *)
(* the same text, source and target, as a translation of a provider or as  *)
(* the original text; a value cached for one text or language pair is not  *)
(* returned for another.  An entry is added only by the provider round of  *)
(* the request its key names, with a value of that round; it keeps its     *)
(* value while it is in the cache; and a call that returns from the cache  *)
(* returns the value of the entry whose key names its request.             *)
(***************************************************************************)
\* The key names the text, the target and the source of the request r.
KeyNames(key, r) ==
    /\ key.text = r.text
    /\ key.target_lang = r.target_lang
    /\ key.source_lang = r.source_lang

\* The step is a provider's answer in the cached call, and value is a field of
\* that answer or the text of the request.
ProducedInStep(value) ==
    \/ /\ pc = "cached_primary"
       /\ value \in {prim'.translatedText, prim'.result, prim'.translation}
    \/ /\ pc = "cached_secondary"
       /\ \/ value = Str(req.text)
          \/ \E resp \in SecondaryResponses :
                CachedSecondary(resp) /\ value = resp.translatedText

\* The step is a translate_text call that returned from the cache.
ReturnsFromCache ==
    pc = "idle" /\ pc' = "idle" /\ now' = now /\ ret_line' = 117

C25_CacheValueIsOfItsKey ==
    [][/\ \A i \in 1..Len(cache') :
             ~CacheHas(cache, cache'[i].key)
             => /\ KeyNames(cache'[i].key, req)
                /\ ProducedInStep(cache'[i].value)
       /\ \A i \in 1..Len(cache) :
             CacheHas(cache', cache[i].key)
             => CacheValue(cache', cache[i].key) = cache[i].value
       /\ ReturnsFromCache
          => \E i \in 1..Len(cache) :
                KeyNames(cache[i].key, req') /\ ret' = cache[i].value]_vars

\* A call for Hello from 'es' to 'es' returned Hola from the cache and sent no
\* request.
C25_Witness ==
    /\ HasReturned
    /\ ret_line = 117
    /\ n_primary = 0 /\ n_secondary = 0
    /\ req.text = Hello /\ req.source_lang = "es"
    /\ ret = Str(Hola)
    /\ CacheHas(cache, ReqKey)

(***************************************************************************)
(* C26: the cache never holds more entries than its maxsize (512 in the    *)
(* program); a new key inserted into a full cache evicts the least         *)
(* recently used entry; and a call that short-circuits (blank text, target *)
(* 'en', translation disabled, cooldown) adds no entry.  The entries are   *)
(* kept from the least to the most recently used: the key a call found or  *)
(* added becomes the last one and the others keep their order, so that the *)
(* first entry is the least recently used, and it is the one evicted.      *)
(***************************************************************************)
Disabled ==
    environ.TRANSLATION_ENABLED = Str(EnvFalse) \/ ~ConfigEnabled(config_name, environ)

\* The call short-circuits.
ShortCircuits(text, target_lang) ==
    IsBlankText(text) \/ target_lang = "en" \/ Disabled \/ HitWithinWindow

\* The step adds an entry for a key the cache did not hold.
AddsEntry == \E i \in 1..Len(cache') : ~CacheHas(cache, cache'[i].key)

Last(c) == c[Len(c)]
AllButLast(c) == SubSeq(c, 1, Len(c) - 1)

C26_CacheBoundedLru ==
    /\ [](/\ Len(cache) <= maxsize
          /\ \A i, j \in 1..Len(cache) : cache[i].key = cache[j].key => i = j)
    /\ [][/\ \A text \in Texts, target_lang \in CacheTargetLangs :
                (translate_text(text, target_lang, "auto")
                    /\ ShortCircuits(text, target_lang))
                => cache' = cache
          /\ AddsEntry
             => /\ KeyNames(Last(cache').key, req)
                /\ AllButLast(cache')
                     = IF Len(cache) = maxsize THEN Tail(cache) ELSE cache
          /\ ReturnsFromCache
             => /\ KeyNames(Last(cache').key, req')
                /\ \E i \in 1..Len(cache) :
                      /\ cache[i] = Last(cache')
                      /\ AllButLast(cache') = CacheWithout(cache, i)
          /\ (~AddsEntry /\ ~ReturnsFromCache) => cache' = cache]_vars

\* The cache holds two entries or more and is full, a call has missed it and
\* its request is in progress: the entry it adds takes the place of one.
C26_Witness ==
    /\ maxsize >= 2
    /\ Len(cache) = maxsize
    /\ pc = "cached_secondary"
    /\ ~CacheHas(cache, ReqKey)
    /\ cache[1].key.target_lang = "fr"
    /\ Last(cache).key.target_lang = "es"

(***************************************************************************)
(* C27: a post is changed (category, status, title, content) or deleted    *)
(* only by a request of the browser logged in as the author of the post:   *)
(* an edit or delete request of another logged-in user, or of a browser    *)
(* that is not logged in, leaves the post and its contents as they are.    *)
(***************************************************************************)
C27_OnlyAuthorChangesPost ==
    [][/\ \A i \in PostIds :
             (post[i] # NoPost /\ post'[i] # post[i])
             => session.user_id = post[i].author_id
       /\ \A i \in PostIds :
             ( /\ post[i] # NoPost
               /\ session.user_id # post[i].author_id
               /\ \/ delete(i)
                  \/ \E method \in Methods, form \in PostForms : edit(i, method, form) )
             => post' = post]_vars

\* A user who is logged in and is not the author asked to edit the post and
\* was refused, and the post is there.
C27_Witness ==
    /\ response.flash = "You do not have permission to edit this post."
    /\ post[1] # NoPost
    /\ session.user_id \in UserIds \ {post[1].author_id}

\* A browser that is not logged in asked to edit or delete the post and was
\* sent to the login page.
AnonymousRefused ==
    /\ response = Unauthorized
    /\ post[1] # NoPost
    /\ ~IsAuthenticated

(***************************************************************************)
(* C28: the forgot-password request does not reveal whether an e-mail is   *)
(* registered: of two requests that differ only in the e-mail, one of a    *)
(* user and one of nobody, the browser gets the same response (page,       *)
(* redirect, flashed message, session cookie).  Whatever a request for one *)
(* e-mail ends in, the same request for any other e-mail can end in.  The  *)
(* code answers a registered e-mail with the error page, and was written   *)
(* to answer it with a page that shows the reset link, while it redirects  *)
(* to the login page for an e-mail of nobody.                              *)
(***************************************************************************)
C28_ForgotPasswordHidesRegistration ==
    [][\A method \in Methods, reset_token \in Tokens, email \in Emails, other \in Emails :
          forgot_password(method, email, reset_token)
          => forgot_password(method, other, reset_token)]_vars

(***************************************************************************)
(* C29: the password-reset flow.  A forgot-password request for a          *)
(* registered e-mail stores a reset token in the session and issues a      *)
(* reset link with it; a reset-password request in that session with the   *)
(* user id, the token and two matching new passwords of six characters or  *)
(* more changes the password of the user and clears the token, unless the  *)
(* commit fails; and the password of a user changes only in a request that *)
(* carries the token stored for that user.  In the code the first step     *)
(* raises AttributeError on user.id: no token is stored and no link        *)
(* issued.                                                                 *)
(***************************************************************************)
Registered(email) == \E u \in UserIds : users[u].email = email

C29_PasswordResetFlow ==
    [][/\ \A email \in Emails, reset_token \in Tokens :
             ( /\ forgot_password("POST", email, reset_token)
               /\ Registered(email)
               /\ ~IsAuthenticated )
             => /\ session'.reset_token[UserByEmail(email)] = reset_token
                /\ response'.reset_link =
                      [user_id |-> UserByEmail(email), token |-> reset_token]
       /\ \A user_id \in UserIds, token \in Tokens :
             ( /\ reset_password(user_id, token, "POST", NewPassword, NewPassword)
               /\ ~IsAuthenticated
               /\ session.reset_token[user_id] = token )
             => \/ /\ check_password_hash(users'[user_id].password, NewPassword)
                   /\ session'.reset_token[user_id] = NoToken
                \/ /\ response'.flash = "Failed to reset password. Please try again."
                   /\ users' = users
       /\ \A user_id \in UserIds :
             users'[user_id].password # users[user_id].password
             => /\ session.reset_token[user_id] # NoToken
                /\ \E new_password \in NewPasswords :
                      reset_password(user_id, session.reset_token[user_id], "POST",
                                     new_password, new_password)]_vars

====
